---------------------------- MODULE Spec2Model ----------------------------
(***************************************************************************)
(* A model of the tidesandcurrents client library (src/src/index.ts):      *)
(* the numeric formatter `round`, the unit symbol table, the moon phase    *)
(* classifier, the module-level `now` value and the facade operations      *)
(* that shape an upstream response.                                        *)
(*                                                                         *)
(* Numbers are exact decimals m * 10^(-e) (the products value * 100 that   *)
(* `round` forms are taken to be exact); text is a sequence of             *)
(* one-character strings, so that formatting and parsing are real          *)
(* conversions.                                                            *)
(***************************************************************************)
EXTENDS Integers, Sequences, FiniteSets, TLC

VARIABLES
  clock,     \* the current day
  elapsed,   \* days passed since the module was loaded
  now,       \* the exported `now` value
  pc,        \* "idle", "awaiting" (a request is in flight) or "settled"
  call,      \* the operation in progress and its arguments
  request,   \* the HTTP request the operation issued
  response,  \* the upstream response its handler received
  outcome,   \* what the operation returned or threw
  sent,      \* how many HTTP requests the operation in progress has issued
  astro      \* the rise/set calls it has made to the astronomy library, in order

vars == <<clock, elapsed, now, pc, call, request, response, outcome, sent, astro>>

---------------------------------------------------------------------------
(* Bounds of the model.                                                    *)

\* largest mantissa of the grid of numeric inputs of round
MaxMant == 30
\* largest number of decimal places of the grid of numeric inputs of round
MaxExp == 8
\* number of days the clock may advance after the module is loaded
MaxDays == 2
\* largest length of an upstream collection
MaxLen == 2
\* how far beyond [0, 1] (in thousandths) the illumination fraction ranges
PhaseSlack == 3

---------------------------------------------------------------------------
(* Text: sequences of one-character strings.                               *)

Digits == <<"0", "1", "2", "3", "4", "5", "6", "7", "8", "9">>

IsDigit(c) == \E i \in 1..10 : Digits[i] = c

DigitVal(c) == (CHOOSE i \in 1..10 : Digits[i] = c) - 1

RECURSIVE Pow10(_)
Pow10(n) == IF n = 0 THEN 1 ELSE 10 * Pow10(n - 1)

Abs(i) == IF i < 0 THEN -i ELSE i

\* the decimal digits of a natural number
RECURSIVE NatDigits(_)
NatDigits(n) ==
  IF n < 10 THEN <<Digits[n + 1]>>
  ELSE NatDigits(n \div 10) \o <<Digits[(n % 10) + 1]>>

\* the natural number a sequence of digits denotes (0 for the empty one)
RECURSIVE DigitsNat(_)
DigitsNat(s) ==
  IF s = <<>> THEN 0
  ELSE 10 * DigitsNat(SubSeq(s, 1, Len(s) - 1)) + DigitVal(s[Len(s)])

AllDigits(s) == \A i \in 1..Len(s) : IsDigit(s[i])

RECURSIVE Zeros(_)
Zeros(n) == IF n <= 0 THEN <<>> ELSE <<"0">> \o Zeros(n - 1)

\* first index of character c in s, 0 when absent
IndexOf(s, c) ==
  IF \E i \in 1..Len(s) : s[i] = c
  THEN CHOOSE i \in 1..Len(s) : s[i] = c /\ \A j \in 1..(i - 1) : s[j] # c
  ELSE 0

Range(s) == {s[i] : i \in 1..Len(s)}

\* t occurs in s as a contiguous run of characters
Contains(s, t) ==
  \E i \in 0..(Len(s) - Len(t)) : SubSeq(s, i + 1, i + Len(t)) = t

---------------------------------------------------------------------------
(* JavaScript values: numbers (m * 10^(-e), normalised), NaN, strings and  *)
(* undefined, as records of one shape.                                     *)

RECURSIVE Norm(_, _)
Norm(m, e) ==
  IF m = 0 THEN [m |-> 0, e |-> 0]
  ELSE IF e > 0 /\ m % 10 = 0 THEN Norm(m \div 10, e - 1)
  ELSE [m |-> m, e |-> e]

Num(m, e) ==
  LET n == Norm(m, e) IN [t |-> "num", m |-> n.m, e |-> n.e, s |-> <<>>]

NaN == [t |-> "nan", m |-> 0, e |-> 0, s |-> <<>>]

Str(s) == [t |-> "str", m |-> 0, e |-> 0, s |-> s]

Undefined == [t |-> "undefined", m |-> 0, e |-> 0, s |-> <<>>]

\* Number.prototype.toString: fixed notation, exponent notation below 1e-6
NumberToString(x) ==
  IF x.t = "nan" THEN <<"N", "a", "N">>
  ELSE
    LET sign == IF x.m < 0 THEN <<"-">> ELSE <<>>
        ds   == NatDigits(Abs(x.m))
        k    == Len(ds)
        n    == k - x.e
    IN  IF x.e = 0 THEN sign \o ds
        ELSE IF n > 0
          THEN sign \o SubSeq(ds, 1, n) \o <<".">> \o SubSeq(ds, n + 1, k)
        ELSE IF n > -6
          THEN sign \o <<"0", ".">> \o Zeros(-n) \o ds
        ELSE IF k = 1
          THEN sign \o ds \o <<"e", "-">> \o NatDigits(1 - n)
        ELSE sign \o <<ds[1], ".">> \o SubSeq(ds, 2, k)
                  \o <<"e", "-">> \o NatDigits(1 - n)

\* the unsigned decimal literal  digits [. digits]  |  . digits
IsDecimalLiteral(s) ==
  LET dot  == IndexOf(s, ".")
      ip   == IF dot = 0 THEN s ELSE SubSeq(s, 1, dot - 1)
      fp   == IF dot = 0 THEN <<>> ELSE SubSeq(s, dot + 1, Len(s))
  IN  AllDigits(ip) /\ AllDigits(fp) /\ Len(ip) + Len(fp) > 0

IsExponentPart(s) ==
  LET body == IF s # <<>> /\ s[1] \in {"-", "+"} THEN Tail(s) ELSE s
  IN  body # <<>> /\ AllDigits(body)

ExponentVal(s) ==
  IF s[1] = "-" THEN -DigitsNat(Tail(s))
  ELSE IF s[1] = "+" THEN DigitsNat(Tail(s))
  ELSE DigitsNat(s)

\* a faulty Number(text) that stops at the decimal point, as parseInt does
StringToNumberIntegral(s) ==
  LET neg == s # <<>> /\ s[1] = "-"
      u   == IF s # <<>> /\ s[1] \in {"-", "+"} THEN Tail(s) ELSE s
      dot == IndexOf(u, ".")
      ip  == IF dot = 0 THEN u ELSE SubSeq(u, 1, dot - 1)
  IN  IF ip = <<>> \/ ~AllDigits(ip) THEN NaN
      ELSE Num(IF neg THEN -DigitsNat(ip) ELSE DigitsNat(ip), 0)

\* Number(text): the StringToNumber conversion for decimal literals with an
\* optional sign and exponent; the empty text is 0, anything else is NaN
StringToNumber(s) ==
  IF s = <<>> THEN Num(0, 0)
  ELSE
    LET neg  == s[1] = "-"
        u    == IF s[1] \in {"-", "+"} THEN Tail(s) ELSE s
        ex   == IndexOf(u, "e")
        mant == IF ex = 0 THEN u ELSE SubSeq(u, 1, ex - 1)
        expo == IF ex = 0 THEN <<>> ELSE SubSeq(u, ex + 1, Len(u))
        dot  == IndexOf(mant, ".")
        ip   == IF dot = 0 THEN mant ELSE SubSeq(mant, 1, dot - 1)
        fp   == IF dot = 0 THEN <<>> ELSE SubSeq(mant, dot + 1, Len(mant))
        mag  == DigitsNat(ip \o fp)
        sh   == Len(fp) - (IF ex = 0 THEN 0 ELSE ExponentVal(expo))
    IN  IF ~IsDecimalLiteral(mant) \/ (ex # 0 /\ ~IsExponentPart(expo))
          THEN NaN
        ELSE IF sh >= 0
          THEN Num(IF neg THEN -mag ELSE mag, sh)
        ELSE Num((IF neg THEN -mag ELSE mag) * Pow10(-sh), 0)

\* a template literal's conversion of a value to text
TemplateText(v) == IF v.t = "str" THEN v.s ELSE NumberToString(v)

IsInteger(v) == v.t = "num" /\ v.e = 0

\* value * k for an integer k
Times(v, k) == IF v.t = "num" THEN Num(v.m * k, v.e) ELSE NaN

\* a faulty Math.round that drops the fraction, as Math.floor does
MathFloor(v) ==
  IF v.t = "num" THEN Num(v.m \div Pow10(v.e), 0) ELSE NaN

\* Math.round: the nearest integer, a tie going toward positive infinity
MathRound(v) ==
  IF v.t = "num"
  THEN Num((2 * v.m + Pow10(v.e)) \div (2 * Pow10(v.e)), 0)
  ELSE NaN

\* value / 10^p
OverPow10(v, p) == IF v.t = "num" THEN Num(v.m, v.e + p) ELSE NaN

\* str.split(".")[1] || []: the piece between the first and second dot
AfterDot(s) ==
  LET dot  == IndexOf(s, ".")
      rest == SubSeq(s, dot + 1, Len(s))
      nxt  == IndexOf(rest, ".")
  IN  IF dot = 0 THEN <<>>
      ELSE IF nxt = 0 THEN rest
      ELSE SubSeq(rest, 1, nxt - 1)

---------------------------------------------------------------------------
(* round (src/src/index.ts 31-47)                                          *)

\* the exponent of the multiplier, Math.pow(10, 2)
RoundPlaces == 2

\* the number of decimal places below which a value is returned as it is
MinPlaces == 3

round(num) ==
  LET value == IF num.t = "str" THEN StringToNumber(num.s) ELSE num
      numDecimalPlaces == Len(AfterDot(NumberToString(value)))
  IN  IF IsInteger(value) THEN value
      ELSE IF numDecimalPlaces < MinPlaces THEN value
      ELSE OverPow10(MathRound(Times(value, Pow10(RoundPlaces))), RoundPlaces)

---------------------------------------------------------------------------
(* Comparison of JavaScript numbers; every comparison with NaN is false.   *)

Lt(a, b) ==
  a.t = "num" /\ b.t = "num" /\ a.m * Pow10(b.e) < b.m * Pow10(a.e)

Leq(a, b) ==
  a.t = "num" /\ b.t = "num" /\ a.m * Pow10(b.e) <= b.m * Pow10(a.e)

Geq(a, b) == Leq(b, a)

---------------------------------------------------------------------------
(* now (src/src/index.ts 49-53): the day the module was loaded.            *)

IsLeap(y) == (y % 4 = 0 /\ y % 100 # 0) \/ y % 400 = 0

DaysInMonth(y, m) ==
  IF m = 2 THEN (IF IsLeap(y) THEN 29 ELSE 28)
  ELSE IF m \in {4, 6, 9, 11} THEN 30 ELSE 31

NextDay(c) ==
  IF c.d < DaysInMonth(c.y, c.m) THEN [c EXCEPT !.d = c.d + 1]
  ELSE IF c.m < 12 THEN [c EXCEPT !.m = c.m + 1, !.d = 1]
  ELSE [y |-> c.y + 1, m |-> 1, d |-> 1]

Pad(n, w) == Zeros(w - Len(NatDigits(n))) \o NatDigits(n)

\* Date.prototype.toISOString of the start of day c (UTC)
toISOString(c) ==
  Pad(c.y, 4) \o <<"-">> \o Pad(c.m, 2) \o <<"-">> \o Pad(c.d, 2)
    \o <<"T", "0", "0", ":", "0", "0", ":", "0", "0", ".", "0", "0", "0", "Z">>

substr(s, from, len) == SubSeq(s, from + 1, from + len)

\* s.replace(/c/g, ""): every occurrence of the character c removed
RECURSIVE RemoveAll(_, _)
RemoveAll(s, c) ==
  IF s = <<>> THEN <<>>
  ELSE (IF Head(s) = c THEN <<>> ELSE <<Head(s)>>) \o RemoveAll(Tail(s), c)

\* the expression that initialises `now`, evaluated on day c
NowAt(c) == RemoveAll(substr(toISOString(c), 0, 10), "-")

\* the days on which the module may be loaded
LoadDays ==
  { [y |-> 2020, m |-> 8, d |-> 5], [y |-> 2020, m |-> 2, d |-> 27],
    [y |-> 2020, m |-> 12, d |-> 30] }

---------------------------------------------------------------------------
(* unitSymbols (src/src/index.ts 60-69); "deg" stands for the degree sign. *)

IMPERIAL == "english"
METRIC == "metric"

\* a faulty table that hands each system the symbols of the other
unitSymbolsSwapped(system) ==
  LET isImperial == system = METRIC
  IN  [ degree   |-> IF isImperial THEN <<"deg", "F">> ELSE <<"deg", "C">>,
        height   |-> IF isImperial THEN <<"f", "t">> ELSE <<"m">>,
        speed    |-> IF isImperial THEN <<"k", "t", "s">> ELSE <<"m", "/", "s">>,
        pressure |-> <<"m", "b">> ]

unitSymbols(system) ==
  LET isImperial == system = IMPERIAL
  IN  [ degree   |-> IF isImperial THEN <<"deg", "F">> ELSE <<"deg", "C">>,
        height   |-> IF isImperial THEN <<"f", "t">> ELSE <<"m">>,
        speed    |-> IF isImperial THEN <<"k", "t", "s">> ELSE <<"m", "/", "s">>,
        pressure |-> <<"m", "b">> ]

---------------------------------------------------------------------------
(* Optional arguments and the request built by get (src/src/index.ts       *)
(* 77-91).                                                                 *)

\* an argument the caller left out
NoArg == "undefined"

\* a ?? b
Coalesce(a, b) == IF a = NoArg THEN b ELSE a

DataGetter == "https://tidesandcurrents.noaa.gov/api/datagetter"

MetadataApi == "https://api.tidesandcurrents.noaa.gov/mdapi/prod/webapi/stations/"

NoRequest == [url |-> <<>>, params |-> <<>>]

\* a faulty get that always asks for json, whatever format the caller gave
getAlwaysJson(stationId, params) ==
  LET time_zone == IF "time_zone" \in DOMAIN params
                     THEN params["time_zone"] ELSE NoArg
      rest      == DOMAIN params \ {"format", "time_zone"}
  IN  [ url    |-> <<DataGetter>>,
        params |-> [ k \in {"station", "format", "time_zone"} \cup rest |->
                       IF k \in rest THEN params[k]
                       ELSE IF k = "station" THEN stationId
                       ELSE IF k = "format" THEN "json"
                       ELSE Coalesce(time_zone, "lst_ldt") ] ]

get(stationId, params) ==
  LET format    == IF "format" \in DOMAIN params THEN params["format"] ELSE NoArg
      time_zone == IF "time_zone" \in DOMAIN params
                     THEN params["time_zone"] ELSE NoArg
      rest      == DOMAIN params \ {"format", "time_zone"}
  IN  [ url    |-> <<DataGetter>>,
        params |-> [ k \in {"station", "format", "time_zone"} \cup rest |->
                       IF k \in rest THEN params[k]
                       ELSE IF k = "station" THEN stationId
                       ELSE IF k = "format" THEN Coalesce(format, "json")
                       ELSE Coalesce(time_zone, "lst_ldt") ] ]

---------------------------------------------------------------------------
(* Outcomes of an operation: a returned value or a thrown error.           *)

NoOutcome == [kind |-> "none", type |-> "", msg |-> <<>>, val |-> <<>>]

Returned(v) == [kind |-> "value", type |-> "", msg |-> <<>>, val |-> v]

Thrown(type, msg) == [kind |-> "error", type |-> type, msg |-> msg, val |-> <<>>]

\* reading property p of undefined
UndefinedRead(p) ==
  Thrown("TypeError",
         <<"Cannot read properties of undefined (reading '", p, "')">>)

SomethingWentWrong == Thrown("Error", <<"Something went wrong.">>)

---------------------------------------------------------------------------
(* moonPhase (src/src/index.ts 356-416), as a function of the illumination *)
(* phase the astronomy library returns.                                    *)

moonPhase(phase) ==
  LET newPhase == Geq(phase, Num(0, 0)) /\ Leq(phase, Num(125, 3))
      waxCres  == Geq(phase, Num(125, 3)) /\ Lt(phase, Num(25, 2))
      quarCres == Geq(phase, Num(25, 2)) /\ Lt(phase, Num(375, 3))
      waxGibb  == Geq(phase, Num(375, 3)) /\ Lt(phase, Num(5, 1))
      full     == Geq(phase, Num(5, 1)) /\ Lt(phase, Num(625, 3))
      wanGibb  == Geq(phase, Num(625, 3)) /\ Lt(phase, Num(75, 2))
      lastQuar == Geq(phase, Num(75, 2)) /\ Lt(phase, Num(875, 3))
      wanCres  == Geq(phase, Num(875, 3)) /\ Leq(phase, Num(1, 0))
  IN  IF newPhase THEN [emoji |-> "U+1F311", phase |-> "new"]
      ELSE IF waxCres THEN [emoji |-> "U+1F312", phase |-> "waxing crescent"]
      ELSE IF quarCres THEN [emoji |-> "U+1F313", phase |-> "quarter crescent"]
      ELSE IF waxGibb THEN [emoji |-> "U+1F314", phase |-> "waxing gibbous"]
      ELSE IF full THEN [emoji |-> "U+1F315", phase |-> "full"]
      ELSE IF wanGibb THEN [emoji |-> "U+1F316", phase |-> "waning gibbous"]
      ELSE IF lastQuar THEN [emoji |-> "U+1F317", phase |-> "last quarter"]
      ELSE IF wanCres THEN [emoji |-> "U+1F318", phase |-> "waning crescent"]
      ELSE [emoji |-> "", phase |-> ""]

---------------------------------------------------------------------------
(* Upstream responses.  body is "none" when res or res.data is missing;    *)
(* coll tells whether the expected top-level collection is absent, an      *)
(* array (items) or some other object.                                     *)

Response(body, coll, items) == [body |-> body, coll |-> coll, items |-> items]

\* a faulty handler of tidePredictions that returns the records latest first
tidePredictionsThenReversed(stationId, unit, res) ==
  IF res.body = "none" THEN SomethingWentWrong
  ELSE IF res.coll = "absent"
    THEN Thrown("Error", <<"Could not get ", "tide predictions", " for station ",
                           stationId, ". Is the station ID correct?">>)
  ELSE IF res.coll # "array"
    THEN Thrown("TypeError", <<"res.data.predictions.map is not a function">>)
  ELSE
    LET symbol == unitSymbols(unit)
        n      == Len(res.items)
    IN  Returned([ i \in 1..n |->
                     LET prediction == res.items[n + 1 - i]
                     IN  [ time     |-> prediction.t,
                           rawValue |-> prediction.v,
                           value    |-> TemplateText(prediction.v) \o symbol.height,
                           type     |-> prediction.type ] ])

\* the handler of tidePredictions (src/src/index.ts 114-132)
tidePredictionsThen(stationId, unit, res) ==
  IF res.body = "none" THEN SomethingWentWrong
  ELSE IF res.coll = "absent"
    THEN Thrown("Error", <<"Could not get ", "tide predictions", " for station ",
                           stationId, ". Is the station ID correct?">>)
  ELSE IF res.coll # "array"
    THEN Thrown("TypeError", <<"res.data.predictions.map is not a function">>)
  ELSE
    LET symbol == unitSymbols(unit)
    IN  Returned([ i \in 1..Len(res.items) |->
                     LET prediction == res.items[i]
                     IN  [ time     |-> prediction.t,
                           rawValue |-> prediction.v,
                           value    |-> TemplateText(prediction.v) \o symbol.height,
                           type     |-> prediction.type ] ])

\* the request stationMetadata issues (src/src/index.ts 154-162)
stationMetadataRequest(stationId) ==
  [ url    |-> <<MetadataApi, stationId, ".json">>,
    params |-> [expand |-> "details"] ]

\* the handler of stationMetadata (src/src/index.ts 163-181)
stationMetadataThen(stationId, res) ==
  IF res.body = "none" THEN SomethingWentWrong
  ELSE IF res.coll = "absent"
    THEN Thrown("Error", <<"Could not get ", "metadata", " for station ",
                           stationId, ".">>)
  ELSE IF res.coll # "array" \/ res.items = <<>>
    THEN Thrown("TypeError",
                <<"Cannot destructure property 'name' of 'res.data.stations[0]' as it is undefined.">>)
  ELSE
    LET station == res.items[1]
    IN  Returned([ id        |-> stationId,
                   name      |-> station.name,
                   state     |-> station.state,
                   latitude  |-> station.lat,
                   longitude |-> station.lng ])

\* a faulty handler of getCurrentProductValue that formats the raw magnitude
\* without rounding it
getCurrentProductValueThenUnrounded(product, stationId, measurement, unit, res) ==
  IF res.body = "none" THEN SomethingWentWrong
  ELSE IF res.coll # "array"
    THEN Thrown("Error", <<"Could not get ", product, " for station ", stationId, ".">>)
  ELSE IF res.items = <<>> THEN UndefinedRead("t")
  ELSE
    LET returnData == res.items[1]
        symbol     == unitSymbols(unit)
    IN  Returned([ time     |-> returnData.t,
                   rawValue |-> Str(TemplateText(returnData.v)),
                   value    |-> TemplateText(returnData.v) \o <<" ">>
                                  \o symbol[measurement] ])

\* the handler of getCurrentProductValue (src/src/index.ts 216-234)
getCurrentProductValueThen(product, stationId, measurement, unit, res) ==
  IF res.body = "none" THEN SomethingWentWrong
  ELSE IF res.coll # "array"
    THEN Thrown("Error", <<"Could not get ", product, " for station ", stationId, ".">>)
  ELSE IF res.items = <<>> THEN UndefinedRead("t")
  ELSE
    LET returnData == res.items[1]
        symbol     == unitSymbols(unit)
    IN  Returned([ time     |-> returnData.t,
                   rawValue |-> Str(TemplateText(round(returnData.v))),
                   value    |-> TemplateText(round(returnData.v)) \o <<" ">>
                                  \o symbol[measurement] ])

\* the handler of currentWind (src/src/index.ts 330-342)
currentWindThen(stationId, unit, res) ==
  IF res.body = "none" THEN UndefinedRead("data")
  ELSE IF res.coll = "absent" THEN UndefinedRead("0")
  ELSE IF res.coll # "array" \/ res.items = <<>> THEN UndefinedRead("t")
  ELSE
    LET returnData == res.items[1]
        symbol     == unitSymbols(unit)
    IN  Returned([ time      |-> returnData.t,
                   rawSpeed  |-> returnData.s,
                   speed     |-> TemplateText(returnData.s) \o <<" ">> \o symbol.speed,
                   rawGust   |-> returnData.g,
                   gust      |-> TemplateText(returnData.g) \o <<" ">> \o symbol.speed,
                   direction |-> returnData.dr ])

\* the product, symbol and datum of the four single-value operations
\* (src/src/index.ts 245-302)
CurrentOps ==
  { [op |-> "currentWaterLevel", product |-> "water_level",
     measurement |-> "height", datum |-> "MLLW"],
    [op |-> "currentAirTemp", product |-> "air_temperature",
     measurement |-> "degree", datum |-> NoArg],
    [op |-> "currentWaterTemp", product |-> "water_temperature",
     measurement |-> "degree", datum |-> NoArg],
    [op |-> "currentAirPressure", product |-> "air_pressure",
     measurement |-> "pressure", datum |-> NoArg] }

CurrentOpNames == {o.op : o \in CurrentOps}

CurrentOp(name) == CHOOSE o \in CurrentOps : o.op = name

\* the parameters getCurrentProductValue passes to get (src/src/index.ts 202-214)
getCurrentProductValueParams(product, unit, datum) ==
  IF datum # NoArg
  THEN [product |-> product, date |-> "latest", units |-> unit, datum |-> datum]
  ELSE [product |-> product, date |-> "latest", units |-> unit]

---------------------------------------------------------------------------
(* Inputs: arguments of the operations and upstream payloads.              *)

StationIds == {"8410140", "9414290"}

UnitArgs == {NoArg, IMPERIAL, METRIC}

DateArgs == {NoArg, "20201231"}

\* the Date a date argument stands for; omitted, it is the day of the call
DateOf(date, today) ==
  IF date = NoArg THEN today ELSE [y |-> 2020, m |-> 12, d |-> 31]

\* the suncalc function each rise/set operation calls
riseSetFunction(op) == IF op = "moonlight" THEN "getMoonTimes" ELSE "getTimes"

\* a faulty call that hands suncalc the coordinates in the wrong order
suncalcCallSwapped(fn, date, metadata) ==
  [fn |-> fn, date |-> date, lat |-> metadata.longitude, lng |-> metadata.latitude]

\* the call suncalc.getMoonTimes / suncalc.getTimes (date, latitude, longitude)
suncalcCall(fn, date, metadata) ==
  [fn |-> fn, date |-> date, lat |-> metadata.latitude, lng |-> metadata.longitude]

\* what suncalc may answer: times of rising and setting, or neither
SuncalcTimes ==
  { [rise |-> "rise", set |-> "set"], [alwaysUp |-> TRUE], [alwaysDown |-> TRUE] }

\* the text of m * 10^(-e) written with exactly e decimals, as upstream does
DecimalText(m, e) ==
  LET ds == NatDigits(Abs(m))
      ps == Zeros(e + 1 - Len(ds)) \o ds
      k  == Len(ps)
  IN  (IF m < 0 THEN <<"-">> ELSE <<>>) \o SubSeq(ps, 1, k - e)
        \o (IF e > 0 THEN <<".">> \o SubSeq(ps, k - e + 1, k) ELSE <<>>)

\* numbers of the documentation's examples and the ties at 0.125
ExampleNumbers ==
  { Num(196401, 4), Num(-4123, 4), Num(71505, 4), Num(19640, 3), Num(-412, 3),
    Num(18423, 3), Num(786, 3), Num(7151, 3), Num(125, 3), Num(-125, 3) }

GridNumbers == {Num(m, e) : m \in (-MaxMant)..MaxMant, e \in 0..MaxExp}

\* the values round is applied to
RoundNumbers == GridNumbers \cup ExampleNumbers \cup {NaN}

\* the arguments that denote the value n: the number itself, or a text of it
\* (canonical, in fixed notation, in fixed notation with a trailing zero);
\* a text that is no number denotes NaN
Writings(n) ==
  IF n.t = "nan" THEN {NaN, Str(<<"n", "/", "a">>)}
  ELSE { n, Str(NumberToString(n)), Str(DecimalText(n.m, n.e)),
         Str(DecimalText(n.m * 10, n.e + 1)) }

\* raw observation records {t, v, type}
RawRecords ==
  { [t |-> "2020-08-05 00:26", v |-> Str(DecimalText(19640, 3)), type |-> "H"],
    [t |-> "2020-08-05 06:53", v |-> Str(DecimalText(-412, 3)), type |-> "L"],
    [t |-> "2020-08-06 16:06", v |-> Num(7151, 3), type |-> "H"],
    [t |-> "2020-08-06 16:12", v |-> Num(-125, 3), type |-> "L"],
    [t |-> "2020-08-06 16:18", v |-> Str(DecimalText(715, 1)), type |-> "H"],
    [t |-> "2020-08-06 16:24", v |-> Num(3, 0), type |-> "L"] }

WindMagnitudes == {Num(7151, 3), Str(DecimalText(5830, 3)), Num(12, 0)}

\* raw wind records {t, s, g, dr}
WindRecords ==
  { [t |-> "2020-08-06 16:06", s |-> a, g |-> b, dr |-> "NNE"] :
      a \in WindMagnitudes, b \in WindMagnitudes }

\* raw station records {name, state, lat, lng}
StationRecords ==
  { [name |-> "Eastport", state |-> "ME", lat |-> Num(449046, 4), lng |-> Num(-669829, 4)],
    [name |-> "San Francisco", state |-> "CA", lat |-> Num(37806, 3), lng |-> Num(-122465, 3)] }

\* the optional parameters of Params a caller of get may add, with a value
OptionalParams == [units |-> "metric", date |-> "20201231"]

\* a function restricted to the keys in K
Restrict(f, K) == [k \in K |-> f[k]]

\* f with key k set to v
WithKey(f, k, v) ==
  [x \in DOMAIN f \cup {k} |-> IF x = k THEN v ELSE f[x]]

\* f with key k set to v, or left alone when v is "absent"
WithOptional(f, k, v) == IF v = "absent" THEN f ELSE WithKey(f, k, v)

\* the params objects a caller passes to get (Params): product, any of the
\* optional parameters, and format and time_zone absent, undefined or given
ParamsObjects ==
  { WithOptional(WithOptional(
      WithKey(Restrict(OptionalParams, K), "product", product),
      "format", format), "time_zone", time_zone) :
      K \in SUBSET DOMAIN OptionalParams,
      product \in {"air_temperature", "water_level"},
      format \in {"absent", NoArg, "json", "csv", "xml"},
      time_zone \in {"absent", NoArg, "gmt", "lst", "lst_ldt"} }

SeqsUpTo(S, n) == UNION {[1..k -> S] : k \in 0..n}

\* the responses a request may resolve with
Responses(S) ==
  { Response("none", "absent", <<>>), Response("object", "absent", <<>>),
    Response("object", "other", <<>>) }
    \cup {Response("object", "array", l) : l \in SeqsUpTo(S, MaxLen)}

NoResponse == Response("none", "none", <<>>)

\* the illumination phases the astronomy library may hand to moonPhase, in
\* thousandths, and NaN (an invalid date)
Phases == {Num(p, 3) : p \in (-PhaseSlack)..(1000 + PhaseSlack)} \cup {NaN}

\* an operation and its arguments; denotes is the value a numeric or textual
\* input stands for
Call(op, stationId, date, units, input, denotes) ==
  [op |-> op, stationId |-> stationId, date |-> date, units |-> units,
   input |-> input, denotes |-> denotes]

NoCall == Call("none", NoArg, NoArg, NoArg, Undefined, Undefined)

---------------------------------------------------------------------------
(* The state machine.                                                      *)

Init ==
  /\ clock \in LoadDays
  /\ elapsed = 0
  /\ now = NowAt(clock)
  /\ pc = "idle"
  /\ call = NoCall
  /\ request = NoRequest
  /\ response = NoResponse
  /\ outcome = NoOutcome
  /\ sent = 0
  /\ astro = <<>>

\* a day passes
Tick ==
  /\ elapsed < MaxDays
  /\ clock' = NextDay(clock)
  /\ elapsed' = elapsed + 1
  /\ UNCHANGED <<now, pc, call, request, response, outcome, sent, astro>>

\* round applied to a number or a text
Round ==
  /\ pc = "idle"
  /\ \E n \in RoundNumbers : \E x \in Writings(n) :
       /\ call' = Call("round", NoArg, NoArg, NoArg, x, n)
       /\ outcome' = Returned(round(x))
  /\ pc' = "settled"
  /\ UNCHANGED <<clock, elapsed, now, request, response, sent, astro>>

\* moonPhase(date), the astronomy library returning some phase for the date
MoonPhase ==
  /\ pc = "idle"
  /\ \E phase \in Phases :
       /\ call' = Call("moonPhase", NoArg, NoArg, NoArg, phase, phase)
       /\ outcome' = Returned(moonPhase(phase))
  /\ pc' = "settled"
  /\ UNCHANGED <<clock, elapsed, now, request, response, sent, astro>>

\* get(stationId, params) issues its request
Get ==
  /\ pc = "idle"
  /\ \E stationId \in StationIds, params \in ParamsObjects :
       /\ call' = Call("get", stationId, NoArg, NoArg, params, Undefined)
       /\ request' = get(stationId, params)
  /\ pc' = "awaiting"
  /\ sent' = sent + 1
  /\ UNCHANGED <<clock, elapsed, now, response, outcome, astro>>

\* the request of get resolves: the caller receives the response as it is
GetThen ==
  /\ pc = "awaiting"
  /\ call.op = "get"
  /\ \E res \in Responses(StationRecords) :
       /\ response' = res
       /\ outcome' = Returned(res)
  /\ pc' = "settled"
  /\ UNCHANGED <<clock, elapsed, now, call, request, sent, astro>>

\* tidePredictions(stationId, date, units) issues its request
TidePredictions ==
  /\ pc = "idle"
  /\ \E stationId \in StationIds, date \in DateArgs, units \in UnitArgs :
       LET unit == Coalesce(units, IMPERIAL)
       IN  /\ call' = Call("tidePredictions", stationId, date, units, Undefined, Undefined)
           /\ request' = get(stationId,
                             [ product  |-> "predictions",
                               date     |-> Coalesce(date, "today"),
                               datum    |-> "MLLW",
                               interval |-> "hilo",
                               units    |-> unit ])
  /\ pc' = "awaiting"
  /\ sent' = sent + 1
  /\ UNCHANGED <<clock, elapsed, now, response, outcome, astro>>

\* the request of tidePredictions resolves and its handler runs
TidePredictionsThen ==
  /\ pc = "awaiting"
  /\ call.op = "tidePredictions"
  /\ \E res \in Responses(RawRecords) :
       /\ response' = res
       /\ outcome' = tidePredictionsThen(call.stationId,
                                         Coalesce(call.units, IMPERIAL), res)
  /\ pc' = "settled"
  /\ UNCHANGED <<clock, elapsed, now, call, request, sent, astro>>

\* stationMetadata(stationId) issues its request
StationMetadata ==
  /\ pc = "idle"
  /\ \E stationId \in StationIds :
       /\ call' = Call("stationMetadata", stationId, NoArg, NoArg, Undefined, Undefined)
       /\ request' = stationMetadataRequest(stationId)
  /\ pc' = "awaiting"
  /\ sent' = sent + 1
  /\ UNCHANGED <<clock, elapsed, now, response, outcome, astro>>

\* the request of stationMetadata resolves and its handler runs
StationMetadataThen ==
  /\ pc = "awaiting"
  /\ call.op = "stationMetadata"
  /\ \E res \in Responses(StationRecords) :
       /\ response' = res
       /\ outcome' = stationMetadataThen(call.stationId, res)
  /\ pc' = "settled"
  /\ UNCHANGED <<clock, elapsed, now, call, request, sent, astro>>

\* currentWaterLevel, currentAirTemp, currentWaterTemp or currentAirPressure
\* issues its request through getCurrentProductValue
CurrentProductValue ==
  /\ pc = "idle"
  /\ \E o \in CurrentOps, stationId \in StationIds, units \in UnitArgs :
       LET unit == Coalesce(units, IMPERIAL)
       IN  /\ call' = Call(o.op, stationId, NoArg, units, Undefined, Undefined)
           /\ request' = get(stationId,
                             getCurrentProductValueParams(o.product, unit, o.datum))
  /\ pc' = "awaiting"
  /\ sent' = sent + 1
  /\ UNCHANGED <<clock, elapsed, now, response, outcome, astro>>

\* the request of getCurrentProductValue resolves and its handler runs
CurrentProductValueThen ==
  /\ pc = "awaiting"
  /\ call.op \in CurrentOpNames
  /\ \E res \in Responses(RawRecords) :
       /\ response' = res
       /\ outcome' = getCurrentProductValueThen(
                        CurrentOp(call.op).product, call.stationId,
                        CurrentOp(call.op).measurement,
                        Coalesce(call.units, IMPERIAL), res)
  /\ pc' = "settled"
  /\ UNCHANGED <<clock, elapsed, now, call, request, sent, astro>>

\* currentWind(stationId, units) issues its request
CurrentWind ==
  /\ pc = "idle"
  /\ \E stationId \in StationIds, units \in UnitArgs :
       LET unit == Coalesce(units, IMPERIAL)
       IN  /\ call' = Call("currentWind", stationId, NoArg, units, Undefined, Undefined)
           /\ request' = get(stationId,
                             [product |-> "wind", date |-> "latest", units |-> unit])
  /\ pc' = "awaiting"
  /\ sent' = sent + 1
  /\ UNCHANGED <<clock, elapsed, now, response, outcome, astro>>

\* the request of currentWind resolves and its handler runs
CurrentWindThen ==
  /\ pc = "awaiting"
  /\ call.op = "currentWind"
  /\ \E res \in Responses(WindRecords) :
       /\ response' = res
       /\ outcome' = currentWindThen(call.stationId,
                                     Coalesce(call.units, IMPERIAL), res)
  /\ pc' = "settled"
  /\ UNCHANGED <<clock, elapsed, now, call, request, sent, astro>>

\* moonlight(stationId, date) up to its await: stationMetadata issues its request
Moonlight ==
  /\ pc = "idle"
  /\ \E stationId \in StationIds, date \in DateArgs :
       /\ call' = Call("moonlight", stationId, date, NoArg, DateOf(date, clock), Undefined)
       /\ request' = stationMetadataRequest(stationId)
  /\ sent' = sent + 1
  /\ pc' = "awaiting"
  /\ UNCHANGED <<clock, elapsed, now, response, outcome, astro>>

\* sunlight(stationId, date) up to its await: stationMetadata issues its request
Sunlight ==
  /\ pc = "idle"
  /\ \E stationId \in StationIds, date \in DateArgs :
       /\ call' = Call("sunlight", stationId, date, NoArg, DateOf(date, clock), Undefined)
       /\ request' = stationMetadataRequest(stationId)
  /\ sent' = sent + 1
  /\ pc' = "awaiting"
  /\ UNCHANGED <<clock, elapsed, now, response, outcome, astro>>

\* moonlight and sunlight resume when stationMetadata settles: a rejection
\* passes through the await, a value is destructured and handed to suncalc
RiseSetResumes ==
  /\ pc = "awaiting"
  /\ call.op \in {"moonlight", "sunlight"}
  /\ \E res \in Responses(StationRecords) :
       LET metadata == stationMetadataThen(call.stationId, res)
       IN  /\ response' = res
           /\ IF metadata.kind = "error"
                THEN outcome' = metadata /\ astro' = astro
                ELSE /\ astro' = Append(astro,
                                        suncalcCall(riseSetFunction(call.op),
                                                    call.input, metadata.val))
                     /\ \E times \in SuncalcTimes : outcome' = Returned(times)
  /\ pc' = "settled"
  /\ UNCHANGED <<clock, elapsed, now, call, request, sent>>

\* the transport fails: the request in flight rejects and no handler runs
TransportFails ==
  /\ pc = "awaiting"
  /\ outcome' = Thrown("TransportError", <<"Network Error">>)
  /\ pc' = "settled"
  /\ UNCHANGED <<clock, elapsed, now, call, request, response, sent, astro>>

\* the caller takes the outcome; the next operation starts afresh
Return ==
  /\ pc = "settled"
  /\ pc' = "idle"
  /\ call' = NoCall
  /\ request' = NoRequest
  /\ response' = NoResponse
  /\ outcome' = NoOutcome
  /\ sent' = 0
  /\ astro' = <<>>
  /\ UNCHANGED <<clock, elapsed, now>>

Next ==
  \/ Tick
  \/ Round
  \/ MoonPhase
  \/ Get
  \/ GetThen
  \/ TidePredictions
  \/ TidePredictionsThen
  \/ StationMetadata
  \/ StationMetadataThen
  \/ CurrentProductValue
  \/ CurrentProductValueThen
  \/ CurrentWind
  \/ CurrentWindThen
  \/ Moonlight
  \/ Sunlight
  \/ RiseSetResumes
  \/ TransportFails
  \/ Return

Spec == Init /\ [][Next]_vars

---------------------------------------------------------------------------
(* Properties.                                                             *)

\* an operation among ops has settled
Settled(ops) == pc = "settled" /\ call.op \in ops

\* the handler ran on a response whose collection is an array
GotArray == response.body = "object" /\ response.coll = "array"

\* the measurement system the operation works in (imperial when omitted)
SystemOf(c) == IF c.units = NoArg THEN IMPERIAL ELSE c.units

\* the documented table of moon phases: range bounds in thousandths
PhaseTable ==
  << [lo |-> 0,   hi |-> 125,  phase |-> "new"],
     [lo |-> 125, hi |-> 250,  phase |-> "waxing crescent"],
     [lo |-> 250, hi |-> 375,  phase |-> "quarter crescent"],
     [lo |-> 375, hi |-> 500,  phase |-> "waxing gibbous"],
     [lo |-> 500, hi |-> 625,  phase |-> "full"],
     [lo |-> 625, hi |-> 750,  phase |-> "waning gibbous"],
     [lo |-> 750, hi |-> 875,  phase |-> "last quarter"],
     [lo |-> 875, hi |-> 1000, phase |-> "waning crescent"] >>

\* fraction f lies in range i of the table: every range owns its lower bound,
\* only the last one its upper bound
InRange(f, i) ==
  /\ Geq(f, Num(PhaseTable[i].lo, 3))
  /\ \/ Lt(f, Num(PhaseTable[i].hi, 3))
     \/ i = Len(PhaseTable) /\ Leq(f, Num(PhaseTable[i].hi, 3))

\* C1: for every illumination fraction in [0, 1], moonPhase returns the phase
\* of the table range that contains the fraction (a range owns its lower
\* bound, so 0.125 is waxing crescent), and never the empty phase.
C1_PhaseOfContainingRange ==
  Settled({"moonPhase"}) =>
    \A i \in 1..Len(PhaseTable) :
      InRange(call.input, i) =>
        /\ outcome.kind = "value"
        /\ outcome.val.phase = PhaseTable[i].phase

\* C2: a fraction below 0 or above 1 makes the classifier end in an error; it
\* never returns a result.
C2_OutOfRangeRaises ==
  (Settled({"moonPhase"})
     /\ (Lt(call.input, Num(0, 0)) \/ Lt(Num(1, 0), call.input)))
    => outcome.kind = "error"

\* the height symbol of a measurement system, as documented
HeightSymbol(system) == IF system = IMPERIAL THEN <<"f", "t">> ELSE <<"m">>

\* C3: every record tidePredictions returns has rawValue equal to the number
\* round(v) of the corresponding raw record, and value equal to the text of
\* that number immediately followed by the height symbol.
C3_PredictionsAreRounded ==
  (Settled({"tidePredictions"}) /\ GotArray) =>
    /\ outcome.kind = "value"
    /\ Len(outcome.val) = Len(response.items)
    /\ \A i \in 1..Len(response.items) :
         LET r == round(response.items[i].v)
         IN  /\ outcome.val[i].rawValue = r
             /\ outcome.val[i].value = NumberToString(r) \o HeightSymbol(SystemOf(call))

\* r is a multiple of 0.01 nearest to v; tiesUp tells whether a value halfway
\* between two multiples goes to the greater one or to the one farther from 0
NearestHundredth(v, r, tiesUp) ==
  /\ r.t = "num"
  /\ r.e <= 2
  /\ LET R == r.m * Pow10(2 - r.e) * Pow10(v.e)
         V == v.m * 100
     IN  /\ 2 * Abs(V - R) <= Pow10(v.e)
         /\ 2 * Abs(V - R) = Pow10(v.e) =>
              IF tiesUp THEN R > V ELSE Abs(R) > Abs(V)

\* the number of characters after the decimal point of the canonical text
CanonicalPlaces(v) == Len(AfterDot(NumberToString(v)))

C5_FewPlacesUnchanged ==
  (Settled({"round"}) /\ call.denotes.t = "num") =>
    /\ outcome.kind = "value"
    /\ call.denotes.e < 3 => outcome.val = call.denotes
    /\ call.input.t = "str" => outcome.val = round(call.denotes)

\* round has been applied to a text with two decimals and a trailing zero
C5_Witness ==
  /\ Settled({"round"})
  /\ call.input = Str(DecimalText(-250, 3))
  /\ outcome.val = Num(-25, 2)

\* the documented symbol of the quantity an operation measures
QuantitySymbol(op, system) ==
  IF op = "currentWaterLevel" THEN HeightSymbol(system)
  ELSE IF op \in {"currentAirTemp", "currentWaterTemp"}
    THEN (IF system = IMPERIAL THEN <<"deg", "F">> ELSE <<"deg", "C">>)
  ELSE <<"m", "b">>

\* a single-value operation has shaped a response that holds a record
ShapedOne == Settled(CurrentOpNames) /\ GotArray /\ response.items # <<>>

\* C6 as stated: the four single-value operations return time equal to the
\* raw t, rawValue equal to the number round(v), and value equal to the text
\* of round(v), one space, and the symbol of the operation's quantity.
C6_RawValueIsTheRoundedNumber ==
  ShapedOne =>
    LET r == round(response.items[1].v)
    IN  /\ outcome.kind = "value"
        /\ outcome.val.time = response.items[1].t
        /\ outcome.val.rawValue = r
        /\ outcome.val.value =
             NumberToString(r) \o <<" ">> \o QuantitySymbol(call.op, SystemOf(call))

\* C6 as amended: the four single-value operations return time equal to the
\* raw t, rawValue equal to the text of the number round(v), and value equal
\* to that text, one space, and the symbol of the operation's quantity in the
\* chosen system (imperial when omitted); value contains rawValue.
C6_RawValueIsTheRoundedText ==
  ShapedOne =>
    LET r == round(response.items[1].v)
    IN  /\ outcome.kind = "value"
        /\ outcome.val.time = response.items[1].t
        /\ outcome.val.rawValue = Str(NumberToString(r))
        /\ outcome.val.value =
             NumberToString(r) \o <<" ">> \o QuantitySymbol(call.op, SystemOf(call))
        /\ Contains(outcome.val.value, outcome.val.rawValue.s)

\* currentAirTemp, called without units, has shaped the magnitude 7.151
C6_Witness ==
  /\ ShapedOne
  /\ call.op = "currentAirTemp"
  /\ call.units = NoArg
  /\ response.items[1].v = Num(7151, 3)
  /\ outcome.val.value = <<"7", ".", "1", "5", " ", "deg", "F">>

\* the operations that report current conditions
ConditionOps == CurrentOpNames \cup {"currentWind"}

\* the outcome is an error whose message names the station
NamesStation == outcome.kind = "error" /\ call.stationId \in Range(outcome.msg)

\* C7: when the data array of the response is empty, a current-conditions
\* operation rejects with an error whose message names the station id.
C7_EmptyDataNamesStation ==
  (Settled(ConditionOps) /\ GotArray /\ response.items = <<>>) => NamesStation

\* the words by which an error message names the operation or its product
OperationWords(op) ==
  IF op = "tidePredictions" THEN {"tide predictions", "predictions"}
  ELSE IF op = "stationMetadata" THEN {"metadata"}
  ELSE IF op = "currentWind" THEN {"wind"}
  ELSE {CurrentOp(op).product}

\* C8: when the response body lacks its top-level collection, every operation
\* that shapes a payload rejects with an error whose message names the
\* station id and the operation or product.
C8_MissingCollectionNamesStation ==
  (Settled(ConditionOps \cup {"tidePredictions", "stationMetadata"})
     /\ response.body = "object" /\ response.coll = "absent") =>
    /\ NamesStation
    /\ OperationWords(call.op) \cap Range(outcome.msg) # {}

\* the documented speed symbol of a measurement system
SpeedSymbol(system) ==
  IF system = IMPERIAL THEN <<"k", "t", "s">> ELSE <<"m", "/", "s">>

\* text is the number r suffixed with symbol, with or without a space
Suffixed(text, r, symbol) ==
  \/ text = NumberToString(r) \o symbol
  \/ text = NumberToString(r) \o <<" ">> \o symbol

\* C9: currentWind returns rawSpeed = round(s) and rawGust = round(g) of the
\* first wind record, speed and gust equal to those rounded numbers suffixed
\* with the speed symbol, and time and direction equal to the raw t and dr.
C9_WindIsRounded ==
  (Settled({"currentWind"}) /\ GotArray /\ response.items # <<>>) =>
    LET raw == response.items[1]
    IN  /\ outcome.kind = "value"
        /\ outcome.val.rawSpeed = round(raw.s)
        /\ outcome.val.rawGust = round(raw.g)
        /\ Suffixed(outcome.val.speed, round(raw.s), SpeedSymbol(SystemOf(call)))
        /\ Suffixed(outcome.val.gust, round(raw.g), SpeedSymbol(SystemOf(call)))
        /\ outcome.val.time = raw.t
        /\ outcome.val.direction = raw.dr

\* the day c written as yyyymmdd
YYYYMMDD(c) == Pad(c.y, 4) \o Pad(c.m, 2) \o Pad(c.d, 2)

\* C10: whenever `now` is read, however long after the module was loaded, it
\* is the current day as yyyymmdd.
C10_NowIsTheCurrentDay == now = YYYYMMDD(clock)

\* the caller gave parameter k a value
Supplied(p, k) == k \in DOMAIN p /\ p[k] # NoArg

ShapedAlone(r) ==
  tidePredictionsThen(call.stationId, SystemOf(call),
                      Response("object", "array", <<r>>)).val[1]

\* C12: tidePredictions returns as many records as the upstream sequence
\* holds, the i-th made from the i-th raw record alone (nothing dropped,
\* duplicated or reordered), with time and type equal to the raw t and type.
C12_PredictionsKeepOrder ==
  (Settled({"tidePredictions"}) /\ GotArray) =>
    /\ outcome.kind = "value"
    /\ Len(outcome.val) = Len(response.items)
    /\ \A i \in 1..Len(response.items) :
         /\ outcome.val[i] = ShapedAlone(response.items[i])
         /\ outcome.val[i].time = response.items[i].t
         /\ outcome.val[i].type = response.items[i].type

\* tidePredictions has shaped a low tide followed by a high tide
C12_Witness ==
  /\ Settled({"tidePredictions"})
  /\ GotArray
  /\ Len(response.items) = 2
  /\ response.items[1].type = "L"
  /\ response.items[2].type = "H"
  /\ Len(outcome.val) = 2
  /\ outcome.val[1].type = "L"

\* the table of symbols the two measurement systems are documented to use
SymbolTable ==
  [ english |-> [ degree   |-> <<"deg", "F">>, height   |-> <<"f", "t">>,
                  speed    |-> <<"k", "t", "s">>, pressure |-> <<"m", "b">> ],
    metric  |-> [ degree   |-> <<"deg", "C">>, height   |-> <<"m">>,
                  speed    |-> <<"m", "/", "s">>, pressure |-> <<"m", "b">> ] ]

\* text ends with the characters of symbol
EndsWith(text, symbol) ==
  /\ Len(text) >= Len(symbol)
  /\ SubSeq(text, Len(text) - Len(symbol) + 1, Len(text)) = symbol

\* the quantity whose symbol an operation puts on its display values
MeasurementOf(op) ==
  IF op = "tidePredictions" \/ op = "currentWaterLevel" THEN "height"
  ELSE IF op \in {"currentAirTemp", "currentWaterTemp"} THEN "degree"
  ELSE IF op = "currentAirPressure" THEN "pressure"
  ELSE "speed"

\* the display values of the result the operation in progress has returned
DisplayValues ==
  IF call.op = "tidePredictions"
    THEN { outcome.val[i].value : i \in 1..Len(outcome.val) }
  ELSE IF call.op = "currentWind" THEN { outcome.val.speed, outcome.val.gust }
  ELSE { outcome.val.value }

\* C13: unitSymbols gives, for each of the two measurement systems, exactly
\* the documented symbols, with pressure "mb" in both; and every display
\* value an operation returns ends with the symbol of the measurement system
\* that the operation sent upstream in its units parameter.
C13_SymbolsOfTheSystemSent ==
  /\ \A system \in {IMPERIAL, METRIC} : unitSymbols(system) = SymbolTable[system]
  /\ unitSymbols(IMPERIAL).pressure = unitSymbols(METRIC).pressure
  /\ (Settled(ConditionOps \cup {"tidePredictions"}) /\ outcome.kind = "value") =>
       /\ request.params["units"] \in {IMPERIAL, METRIC}
       /\ \A text \in DisplayValues :
            EndsWith(text, SymbolTable[request.params["units"]][MeasurementOf(call.op)])

\* currentWind asked for metric units and returned a speed in metres a second
C13_Witness ==
  /\ Settled({"currentWind"})
  /\ outcome.kind = "value"
  /\ call.units = METRIC
  /\ request.params["units"] = "metric"
  /\ EndsWith(outcome.val.speed, <<"m", "/", "s">>)
  /\ ~ EndsWith(outcome.val.speed, <<"k", "t", "s">>)

RiseSetOps == {"moonlight", "sunlight"}

\* the metadata request of the operation in progress failed in transport
TransportFailed == outcome = Thrown("TransportError", <<"Network Error">>)

\* its response came without a stations collection
StationsMissing == response.body = "object" /\ response.coll = "absent"

\* C14: moonlight and sunlight call the astronomy library at most once, only
\* once the metadata request has succeeded, and with the latitude and
\* longitude of that metadata; when the metadata request fails (in transport,
\* or by a response without stations) the library is never called, exactly
\* one HTTP request has been issued, and the operation rejects with that failure.
C14_AstronomyOnlyAfterMetadata ==
  /\ Len(astro) <= 1
  /\ (call.op \in RiseSetOps /\ pc = "awaiting") => (astro = <<>> /\ sent = 1)
  /\ astro # <<>> =>
       /\ Settled(RiseSetOps)
       /\ GotArray /\ response.items # <<>>
       /\ outcome.kind = "value"
       /\ sent = 1
       /\ astro[1].fn = (IF call.op = "moonlight" THEN "getMoonTimes" ELSE "getTimes")
       /\ astro[1].date = call.input
       /\ astro[1].lat = response.items[1].lat
       /\ astro[1].lng = response.items[1].lng
  /\ (Settled(RiseSetOps) /\ TransportFailed) =>
       (astro = <<>> /\ sent = 1 /\ response = NoResponse)
  /\ (Settled(RiseSetOps) /\ StationsMissing) =>
       /\ astro = <<>>
       /\ sent = 1
       /\ outcome = Thrown("Error", <<"Could not get ", "metadata", " for station ",
                                      call.stationId, ".">>)
  /\ (Settled(RiseSetOps) /\ outcome.kind = "error") => astro = <<>>

\* moonlight has asked suncalc for the moon times at Eastport
C14_Witness ==
  /\ Settled({"moonlight"})
  /\ Len(astro) = 1
  /\ astro[1].fn = "getMoonTimes"
  /\ astro[1].lat = Num(449046, 4)
  /\ astro[1].lng = Num(-669829, 4)
  /\ sent = 1

=============================================================================
